---- MODULE Spec2Model ----
(***************************************************************************)
(* UnityAid home page: the block catalog of home/blocks.py and the         *)
(* HomePage.content StreamField of home/models.py.                         *)
(*                                                                         *)
(* The two files are declarations; what a declaration means (to_python,    *)
(* clean, get_prep_value of StructBlock, ListBlock, FieldBlock and         *)
(* StreamBlock) is what the Wagtail classes they instantiate do.           *)
(*                                                                         *)
(* Values.  JSON data and Python values are tagged records:                *)
(*   [t |-> "none"]                 None / null                            *)
(*   [t |-> "str",  s |-> "..."]    a string (text, choice code, URL)      *)
(*   [t |-> "bool", b |-> TRUE]     a boolean                              *)
(*   [t |-> "id",   id |-> "1"]     a primary key in JSON                  *)
(*   [t |-> "obj",  id |-> "1"]     the image / page object in Python      *)
(*   [t |-> "list", items |-> <<>>] a list                                 *)
(*   [t |-> "item", value |-> v]    ListBlock's {type: "item", value: v}   *)
(*   [t |-> "struct", f |-> [name |-> value]]   a dict / StructValue       *)
(* Strings are free of surrounding whitespace and control characters.      *)
(***************************************************************************)
EXTENDS Integers, Sequences, FiniteSets, TLC

\* Longest nested list (stats, projects) an author submits.
MaxItems == 2
\* Longest Content Sequence an author submits.
MaxSeqLen == 2

NoneV == [t |-> "none"]
Str(s) == [t |-> "str", s |-> s]
Bool(b) == [t |-> "bool", b |-> b]
Id(i) == [t |-> "id", id |-> i]
Obj(i) == [t |-> "obj", id |-> i]
List(items) == [t |-> "list", items |-> items]
Item(v) == [t |-> "item", value |-> v]
Struct(f) == [t |-> "struct", f |-> f]

\* The spec's error taxonomy, as the codes of the framework's ValidationError.
MissingRequiredField == "required"
LengthExceeded == "max_length"
InvalidChoice == "invalid_choice"

Err(path, code) == [path |-> path, code |-> code]

(***************************************************************************)
(* Field block constructors: the keyword arguments a declaration passes,   *)
(* with the framework's value for the ones it leaves out.                  *)
(***************************************************************************)
FieldBlock(block, required, limited, max_length, choices, default, child) ==
    [block |-> block, required |-> required, limited |-> limited,
     max_length |-> max_length, choices |-> choices, default |-> default,
     child |-> child]

CharBlock(required, limited, max_length) ==
    FieldBlock("CharBlock", required, limited, max_length, {}, NoneV, <<>>)
TextBlock(required) == FieldBlock("TextBlock", required, FALSE, 0, {}, NoneV, <<>>)
URLBlock(required) == FieldBlock("URLBlock", required, FALSE, 0, {}, NoneV, <<>>)
ImageChooserBlock(required) ==
    FieldBlock("ImageChooserBlock", required, FALSE, 0, {}, NoneV, <<>>)
PageChooserBlock(required) ==
    FieldBlock("PageChooserBlock", required, FALSE, 0, {}, NoneV, <<>>)
ChoiceBlock(choices, required, default) ==
    FieldBlock("ChoiceBlock", required, FALSE, 0, choices, default, <<>>)
BooleanBlock(required, default) ==
    FieldBlock("BooleanBlock", required, FALSE, 0, {}, default, <<>>)
ListBlock(child) == FieldBlock("ListBlock", FALSE, FALSE, 0, {}, NoneV, child)

\* One declared field: name = block.
F(name, block) == [name |-> name] @@ block

(***************************************************************************)
(* The block catalog (home/blocks.py): a StructBlock is the sequence of    *)
(* its declared fields, in declaration order.                              *)
(***************************************************************************)
HeroBlock_NoHeightDefault ==
    << F("title", CharBlock(TRUE, FALSE, 0)),
       F("subtitle", TextBlock(FALSE)),
       F("background_image", ImageChooserBlock(TRUE)),
       F("primary_button_text", CharBlock(FALSE, FALSE, 0)),
       F("secondary_button_text", CharBlock(FALSE, FALSE, 0)),
       F("primary_button_link", PageChooserBlock(FALSE)),
       F("secondary_button_link", PageChooserBlock(FALSE)),
       F("height", ChoiceBlock({"full", "medium", "small"}, TRUE, NoneV)) >>

HeroBlock ==
    << F("title", CharBlock(TRUE, FALSE, 0)),
       F("subtitle", TextBlock(FALSE)),
       F("background_image", ImageChooserBlock(TRUE)),
       F("primary_button_text", CharBlock(FALSE, FALSE, 0)),
       F("secondary_button_text", CharBlock(FALSE, FALSE, 0)),
       F("primary_button_link", PageChooserBlock(FALSE)),
       F("secondary_button_link", PageChooserBlock(FALSE)),
       F("height", ChoiceBlock({"full", "medium", "small"}, TRUE, Str("full"))) >>

StatsBlock_OffByOne ==
    << F("icon_name", ChoiceBlock({"users", "utensils", "heart", "globe"}, TRUE, NoneV)),
       F("number", CharBlock(TRUE, TRUE, 21)),
       F("label", CharBlock(TRUE, TRUE, 50)),
       F("suffix", CharBlock(FALSE, TRUE, 5)) >>

StatsBlock ==
    << F("icon_name", ChoiceBlock({"users", "utensils", "heart", "globe"}, TRUE, NoneV)),
       F("number", CharBlock(TRUE, TRUE, 20)),
       F("label", CharBlock(TRUE, TRUE, 50)),
       F("suffix", CharBlock(FALSE, TRUE, 5)) >>

ImpactStatisticBlock_TitleOptional ==
    << F("section_title", CharBlock(FALSE, TRUE, 100)),
       F("section_subtitle", TextBlock(FALSE)),
       F("stats", ListBlock(StatsBlock)) >>

ImpactStatisticBlock ==
    << F("section_title", CharBlock(TRUE, TRUE, 100)),
       F("section_subtitle", TextBlock(FALSE)),
       F("stats", ListBlock(StatsBlock)) >>

SectionHeaderBlock ==
    << F("title", CharBlock(TRUE, FALSE, 0)),
       F("subtitle", TextBlock(FALSE)),
       F("centered", BooleanBlock(FALSE, Bool(TRUE))) >>

ProjectCardBlock_LowerCaseStatus ==
    << F("image", ImageChooserBlock(TRUE)),
       F("title", CharBlock(TRUE, TRUE, 200)),
       F("location", CharBlock(TRUE, TRUE, 100)),
       F("description", TextBlock(TRUE)),
       F("status", ChoiceBlock({"Active", "Ongoing", "Completed", "active"}, TRUE, Str("Active"))),
       F("link", URLBlock(FALSE)) >>

ProjectCardBlock ==
    << F("image", ImageChooserBlock(TRUE)),
       F("title", CharBlock(TRUE, TRUE, 200)),
       F("location", CharBlock(TRUE, TRUE, 100)),
       F("description", TextBlock(TRUE)),
       F("status", ChoiceBlock({"Active", "Ongoing", "Completed"}, TRUE, Str("Active"))),
       F("link", URLBlock(FALSE)) >>

ProjectCardsBlock_TitleRequired ==
    << F("section_title", CharBlock(TRUE, TRUE, 200)),
       F("section_subtitle", TextBlock(FALSE)),
       F("projects", ListBlock(ProjectCardBlock)) >>

ProjectCardsBlock ==
    << F("section_title", CharBlock(FALSE, TRUE, 200)),
       F("section_subtitle", TextBlock(FALSE)),
       F("projects", ListBlock(ProjectCardBlock)) >>

\* Imported by home/models.py, defined nowhere in home/blocks.py: a struct
\* block whose fields are not known.
TeamMemberBlock == << >>
TeamSectionBlock == << >>

FieldNames(block) == {block[i].name : i \in DOMAIN block}
FieldOf(block, name) == CHOOSE fd \in {block[i] : i \in DOMAIN block} : fd.name = name

(***************************************************************************)
(* to_python, get_default, clean and get_prep_value.                       *)
(***************************************************************************)
RECURSIVE StructDefault(_)
RECURSIVE StructToPython(_, _)
RECURSIVE StructErrors(_, _, _)
RECURSIVE StructClean(_, _)
RECURSIVE StructPrep(_, _)

\* Block.get_default: meta.default; a ListBlock that declares none defaults to
\* a list of one default-valued child.
GetDefault(fd) ==
    IF fd.block = "ListBlock" THEN List(<< StructDefault(fd.child) >>) ELSE fd.default

\* StructBlock.get_default: every child's default.
StructDefault(block) ==
    Struct([n \in FieldNames(block) |-> GetDefault(FieldOf(block, n))])

\* to_python of a field block: JSON data to the Python value.
ToPython(fd, raw) ==
    CASE fd.block \in {"ImageChooserBlock", "PageChooserBlock"} ->
            IF raw = NoneV THEN NoneV ELSE Obj(raw.id)
      [] fd.block = "ListBlock" ->
            List([i \in DOMAIN raw.items |->
                    StructToPython(fd.child,
                        IF raw.items[i].t = "item" THEN raw.items[i].value
                                                   ELSE raw.items[i])])
      [] OTHER -> raw

\* StructBlock.to_python: a declared name the data lacks takes the child's
\* default; a name the block does not declare is left out.
StructToPython(block, raw) ==
    Struct([n \in FieldNames(block) |->
              IF n \in DOMAIN raw.f THEN ToPython(FieldOf(block, n), raw.f[n])
                                    ELSE GetDefault(FieldOf(block, n))])

IsEmpty(v) == v = NoneV \/ (v.t = "str" /\ v.s = "")

Errors_ListUnchecked(fd, v, path) ==
    CASE fd.block \in {"CharBlock", "TextBlock", "URLBlock"} ->
            IF IsEmpty(v)
            THEN (IF fd.required THEN {Err(path, MissingRequiredField)} ELSE {})
            ELSE IF fd.limited /\ Len(v.s) > fd.max_length
                 THEN {Err(path, LengthExceeded)} ELSE {}
      [] fd.block = "ChoiceBlock" ->
            IF IsEmpty(v)
            THEN (IF fd.required THEN {Err(path, MissingRequiredField)} ELSE {})
            ELSE IF v.s \notin fd.choices
                 THEN {Err(path, InvalidChoice)} ELSE {}
      [] fd.block \in {"ImageChooserBlock", "PageChooserBlock"} ->
            IF v = NoneV /\ fd.required THEN {Err(path, MissingRequiredField)} ELSE {}
      [] OTHER -> {}

\* clean of a field block: the errors raised, each under the path of its field.
Errors(fd, v, path) ==
    CASE fd.block \in {"CharBlock", "TextBlock", "URLBlock"} ->
            IF IsEmpty(v)
            THEN (IF fd.required THEN {Err(path, MissingRequiredField)} ELSE {})
            ELSE IF fd.limited /\ Len(v.s) > fd.max_length
                 THEN {Err(path, LengthExceeded)} ELSE {}
      [] fd.block = "ChoiceBlock" ->
            IF IsEmpty(v)
            THEN (IF fd.required THEN {Err(path, MissingRequiredField)} ELSE {})
            ELSE IF v.s \notin fd.choices
                 THEN {Err(path, InvalidChoice)} ELSE {}
      [] fd.block \in {"ImageChooserBlock", "PageChooserBlock"} ->
            IF v = NoneV /\ fd.required THEN {Err(path, MissingRequiredField)} ELSE {}
      [] fd.block = "BooleanBlock" ->
            IF fd.required /\ v # Bool(TRUE)
            THEN {Err(path, MissingRequiredField)} ELSE {}
      [] fd.block = "ListBlock" ->
            UNION {StructErrors(fd.child, v.items[i], path \o << ToString(i - 1) >>) :
                     i \in DOMAIN v.items}

\* StructBlock.clean: every child is cleaned, the errors are collected by name.
StructErrors(block, v, path) ==
    UNION {Errors(block[i], v.f[block[i].name], path \o << block[i].name >>) :
             i \in DOMAIN block}

\* clean of a field block: the value returned when nothing is raised.
Clean(fd, v) ==
    CASE fd.block \in {"CharBlock", "TextBlock", "URLBlock", "ChoiceBlock"} ->
            IF v = NoneV THEN Str("") ELSE v
      [] fd.block = "BooleanBlock" -> IF v = NoneV THEN Bool(FALSE) ELSE v
      [] fd.block = "ListBlock" ->
            List([i \in DOMAIN v.items |-> StructClean(fd.child, v.items[i])])
      [] OTHER -> v

StructClean(block, v) ==
    Struct([n \in FieldNames(block) |-> Clean(FieldOf(block, n), v.f[n])])

GetPrepValue_DropsChosen(fd, v) ==
    CASE fd.block \in {"ImageChooserBlock", "PageChooserBlock"} -> NoneV
      [] fd.block = "ListBlock" ->
            List([i \in DOMAIN v.items |-> Item(StructPrep(fd.child, v.items[i]))])
      [] OTHER -> v

\* get_prep_value of a field block: the Python value to JSON data.
GetPrepValue(fd, v) ==
    CASE fd.block \in {"ImageChooserBlock", "PageChooserBlock"} ->
            IF v = NoneV THEN NoneV ELSE Id(v.id)
      [] fd.block = "ListBlock" ->
            List([i \in DOMAIN v.items |-> Item(StructPrep(fd.child, v.items[i]))])
      [] OTHER -> v

StructPrep(block, v) ==
    Struct([n \in FieldNames(block) |-> GetPrepValue(FieldOf(block, n), v.f[n])])

(***************************************************************************)
(* The page schema (home/models.py): HomePage.content.                     *)
(***************************************************************************)
\* The block classes home/models.py imports from home/blocks.py, by name.
Catalog(name) ==
    CASE name = "HeroBlock" -> HeroBlock
      [] name = "StatsBlock" -> StatsBlock
      [] name = "ImpactStatisticBlock" -> ImpactStatisticBlock
      [] name = "SectionHeaderBlock" -> SectionHeaderBlock
      [] name = "ProjectCardBlock" -> ProjectCardBlock
      [] name = "ProjectCardsBlock" -> ProjectCardsBlock
      [] name = "TeamMemberBlock" -> TeamMemberBlock
      [] name = "TeamSectionBlock" -> TeamSectionBlock

HomePageContent_StatsIsSection ==
    << << "hero_section", "HeroBlock" >>,
       << "section_header", "SectionHeaderBlock" >>,
       << "stats", "ImpactStatisticBlock" >>,
       << "impact_statistic", "ImpactStatisticBlock" >>,
       << "project_card", "ProjectCardBlock" >>,
       << "project_cards", "ProjectCardsBlock" >>,
       << "team_member", "TeamMemberBlock" >>,
       << "team_section", "TeamSectionBlock" >> >>

\* The (kind name, block) list passed to StreamField.
HomePageContent ==
    << << "hero_section", "HeroBlock" >>,
       << "section_header", "SectionHeaderBlock" >>,
       << "stats", "StatsBlock" >>,
       << "impact_statistic", "ImpactStatisticBlock" >>,
       << "project_card", "ProjectCardBlock" >>,
       << "project_cards", "ProjectCardsBlock" >>,
       << "team_member", "TeamMemberBlock" >>,
       << "team_section", "TeamSectionBlock" >> >>

\* StreamBlock.child_blocks: a dict built from the list in order, so of two
\* entries with one name the later one stays.
ChildKinds == {HomePageContent[i][1] : i \in DOMAIN HomePageContent}
ChildBlock(kind) ==
    LET last == CHOOSE i \in DOMAIN HomePageContent :
                   /\ HomePageContent[i][1] = kind
                   /\ \A j \in DOMAIN HomePageContent :
                        HomePageContent[j][1] = kind => j <= i
    IN  HomePageContent[last][2]

IsKnown(record) == record.type \in ChildKinds

Recognised_NoneIfAnyUnknown(raw) ==
    IF \A i \in DOMAIN raw : IsKnown(raw[i]) THEN raw ELSE << >>

\* StreamBlock.to_python, first step: the records of a type the stream does
\* not declare are left out of the list.
Recognised(raw) == SelectSeq(raw, IsKnown)

\* StreamBlock.to_python: each remaining {type, value} record becomes a child
\* of the block bound to its type.
StreamToPython(raw) ==
    LET known == Recognised(raw)
    IN  [i \in DOMAIN known |->
           [type |-> known[i].type,
            block |-> ChildBlock(known[i].type),
            value |-> StructToPython(Catalog(ChildBlock(known[i].type)), known[i].value)]]

StreamErrors_Ignored(v) == {}

\* StreamBlock.clean: every child is cleaned; the errors are kept by index.
\* blank=True: an empty stream raises nothing.
StreamErrors(v) ==
    UNION {StructErrors(Catalog(v[i].block), v[i].value, << ToString(i - 1) >>) :
             i \in DOMAIN v}

StreamClean(v) ==
    [i \in DOMAIN v |->
       [type |-> v[i].type, block |-> v[i].block,
        value |-> StructClean(Catalog(v[i].block), v[i].value)]]

\* StreamValue.get_prep_value: the ordered list of {type, value} records.
StreamPrep(v) ==
    [i \in DOMAIN v |->
       [type |-> v[i].type, value |-> StructPrep(Catalog(v[i].block), v[i].value)]]

\* Saving a submitted Content Sequence: to_python, clean, and when nothing is
\* raised the JSON data that is written.
Submit(raw) ==
    LET v == StreamToPython(raw)
        errors == StreamErrors(v)
    IN  [errors |-> errors,
         blocks |-> [i \in DOMAIN v |-> v[i].block],
         stored |-> IF errors = {} THEN StreamPrep(StreamClean(v)) ELSE << >>]

(***************************************************************************)
(* What an author submits.                                                 *)
(***************************************************************************)
Absent == [t |-> "absent"]

\* The dict with the given keys, the keys whose value is Absent left out.
Dict(names, values) ==
    Struct([n \in {names[i] : i \in {j \in DOMAIN names : values[j] # Absent}} |->
              values[CHOOSE i \in DOMAIN names : names[i] = n]])

RECURSIVE Chars(_)
Chars(n) ==
    IF n = 0 THEN ""
    ELSE IF n % 2 = 1 THEN Chars(n - 1) \o "x"
    ELSE LET half == Chars(n \div 2) IN half \o half

\* A text of each length around a max_length, or no text.
TextsAround(max_length) == {Absent, Str(Chars(1)), Str(Chars(max_length)), Str(Chars(max_length + 1))}
AnyText == {Absent, Str("Welcome")}

\* The lists of at most MaxItems of the given items.
ListsOf(items) == {List(l) : l \in UNION {[1..n -> items] : n \in 0..MaxItems}}

HeroInstances ==
    {Dict(<< "title", "subtitle", "background_image", "primary_button_text",
             "secondary_button_text", "primary_button_link", "height" >>,
          << t, s, img, pt, st, pl, h >>) :
       t \in AnyText, s \in AnyText, img \in {Absent, Id(1)}, pt \in AnyText,
       st \in AnyText, pl \in {Absent, Id(2)},
       h \in {Absent, Str("full"), Str("medium"), Str("small"), Str("Full"), Str("huge")}}

StatInstances ==
    {Dict(<< "icon_name", "number", "label", "suffix" >>, << i, n, l, s >>) :
       i \in {Absent, Str("users"), Str("utensils"), Str("heart"), Str("globe"), Str("star")},
       n \in TextsAround(20), l \in TextsAround(50), s \in TextsAround(5)}

\* Two valid stat items and two invalid ones.
StatA == Dict(<< "icon_name", "number", "label" >>,
              << Str("users"), Str("500"), Str("People Helped") >>)
StatB == Dict(<< "icon_name", "number", "label", "suffix" >>,
              << Str("globe"), Str("12"), Str("Countries"), Str("+") >>)
StatNoNumber == Dict(<< "icon_name", "label" >>, << Str("heart"), Str("Donors") >>)
StatLongNumber == Dict(<< "icon_name", "number", "label" >>,
                       << Str("heart"), Str(Chars(21)), Str("Donors") >>)

ImpactInstances ==
    {Dict(<< "section_title", "section_subtitle", "stats" >>, << t, s, l >>) :
       t \in TextsAround(100), s \in AnyText,
       l \in {Absent} \cup ListsOf({StatA, StatB, StatNoNumber, StatLongNumber})}

SectionHeaderInstances ==
    {Dict(<< "title", "subtitle", "centered" >>, << t, s, c >>) :
       t \in AnyText, s \in AnyText, c \in {Absent, Bool(TRUE), Bool(FALSE)}}

CardInstances ==
    {Dict(<< "image", "title", "location", "description", "status", "link" >>,
          << img, t, loc, d, st, l >>) :
       img \in {Absent, Id(1)}, t \in TextsAround(200), loc \in TextsAround(100),
       d \in AnyText,
       st \in {Absent, Str("Active"), Str("Ongoing"), Str("Completed"), Str("active"), Str("Paused")},
       l \in {Absent, Str("https://unityaid.example/projects/1")}}

\* Two valid project cards and two invalid ones.
CardA == Dict(<< "image", "title", "location", "description", "status", "link" >>,
              << Id(1), Str("Wells"), Str("Kenya"), Str("Clean water"), Str("Ongoing"),
                 Str("https://unityaid.example/projects/1") >>)
CardB == Dict(<< "image", "title", "location", "description" >>,
              << Id(1), Str("Schools"), Str("Nepal"), Str("Classrooms") >>)
CardNoTitle == Dict(<< "image", "location", "description", "status" >>,
                    << Id(1), Str("Peru"), Str("Clinics"), Str("Active") >>)
CardBadStatus == Dict(<< "image", "title", "location", "description", "status" >>,
                      << Id(1), Str("Farms"), Str("Laos"), Str("Seeds"), Str("active") >>)

CardsInstances ==
    {Dict(<< "section_title", "section_subtitle", "projects" >>, << t, s, l >>) :
       t \in TextsAround(200), s \in AnyText,
       l \in {Absent} \cup ListsOf({CardA, CardB, CardNoTitle, CardBadStatus})}

\* Every (block, JSON data) a single block is validated on.
Instances ==
    ({"HeroBlock"} \X HeroInstances) \cup ({"StatsBlock"} \X StatInstances)
    \cup ({"ImpactStatisticBlock"} \X ImpactInstances)
    \cup ({"SectionHeaderBlock"} \X SectionHeaderInstances)
    \cup ({"ProjectCardBlock"} \X CardInstances)
    \cup ({"ProjectCardsBlock"} \X CardsInstances)

\* The Content Sequence of the spec's end-to-end example, its second pair under
\* the kind the example names and under the kind bound to the section block.
ExampleHero == Dict(<< "title", "background_image", "height" >>,
                    << Str("Welcome"), Id(1), Str("medium") >>)
ExampleImpact == Dict(<< "section_title", "stats" >>,
                      << Str("Our Impact"), List(<< StatA >>) >>)
Pair(kind, value) == [type |-> kind, value |-> value]
ExampleSequence == << Pair("hero_section", ExampleHero), Pair("stats", ExampleImpact) >>
ExampleAsImpact ==
    << Pair("hero_section", ExampleHero), Pair("impact_statistic", ExampleImpact) >>

\* The pairs an author composes a Content Sequence of: valid and invalid
\* instances of declared kinds, and a kind the page does not declare.
AuthorPairs ==
    { Pair("hero_section", ExampleHero),
      Pair("stats", ExampleImpact),
      Pair("impact_statistic", ExampleImpact),
      Pair("project_cards", Dict(<< "projects" >>, << List(<< CardB, CardNoTitle >>) >>)),
      Pair("team_member", Dict(<< >>, << >>)),
      Pair("video", Dict(<< "title" >>, << Str("Welcome") >>)) }

Sequences == UNION {[1..n -> AuthorPairs] : n \in 0..MaxSeqLen}

\* Submit, tabulated over the sequences an author submits.
RECURSIVE AnswersFrom(_, _, _)
AnswersFrom(prefix, n, pairs) ==
    IF n = 0 \/ pairs = {} THEN prefix :> Submit(prefix)
    ELSE LET p == CHOOSE q \in pairs : TRUE
         IN  AnswersFrom(Append(prefix, p), n - 1, AuthorPairs)
               @@ AnswersFrom(prefix, n, pairs \ {p})
Answer == AnswersFrom(<< >>, MaxSeqLen, AuthorPairs)

(***************************************************************************)
(* State.                                                                  *)
(***************************************************************************)
VARIABLES
    exists,     \* the page is in the database
    content,    \* its persisted Content Sequence: the JSON list of {type, value}
    request,    \* the Content Sequence last submitted
    response,   \* what the last operation answered, and the state it started from
    instance,   \* << block, JSON data >>: a single instance to validate
    result      \* the outcome of validating it

vars == << exists, content, request, response, instance, result >>

NoResponse == [op |-> "none", errors |-> {}, blocks |-> << >>,
               before |-> << >>, existed |-> FALSE]
NoInstance == << "", Struct(<< >>) >>
Pending == [done |-> FALSE, errors |-> {}, value |-> NoneV, stored |-> NoneV]

Init ==
    /\ exists = FALSE
    /\ content = << >>
    /\ request = << >>
    /\ response = NoResponse
    /\ instance = NoInstance
    /\ result = Pending

\* Submitting seq as the content of the page (creating it when new): written
\* only when clean raises nothing.
Save(op, seq) ==
    \E s \in {Answer[seq]} :
        /\ request' = seq
        /\ response' = [op |-> op, errors |-> s.errors, blocks |-> s.blocks,
                        before |-> content, existed |-> exists]
        /\ IF s.errors = {}
           THEN exists' = TRUE /\ content' = s.stored
           ELSE UNCHANGED << exists, content >>
        /\ UNCHANGED << instance, result >>

CreatePage == /\ ~exists
              /\ \E seq \in Sequences : Save("create", seq)

EditPage == /\ exists
            /\ \E seq \in Sequences : Save("edit", seq)

DeletePage ==
    /\ exists
    /\ exists' = FALSE
    /\ content' = << >>
    /\ request' = << >>
    /\ response' = [op |-> "delete", errors |-> {}, blocks |-> << >>,
                    before |-> content, existed |-> exists]
    /\ UNCHANGED << instance, result >>

Next == CreatePage \/ EditPage \/ DeletePage

Spec == Init /\ [][Next]_vars

\* Validating one instance of one Block Definition.
InitBlocks ==
    /\ exists = FALSE
    /\ content = << >>
    /\ request = << >>
    /\ response = NoResponse
    /\ instance \in Instances
    /\ result = Pending

ValidateBlock ==
    /\ ~result.done
    /\ LET block == Catalog(instance[1])
           v == StructToPython(block, instance[2])
           errors == StructErrors(block, v, << >>)
       IN  result' = [done |-> TRUE, errors |-> errors,
                      value |-> IF errors = {} THEN StructClean(block, v) ELSE NoneV,
                      stored |-> IF errors = {}
                                 THEN StructPrep(block, StructClean(block, v))
                                 ELSE NoneV]
    /\ UNCHANGED << exists, content, request, response, instance >>

NextBlocks == ValidateBlock

SpecBlocks == InitBlocks /\ [][NextBlocks]_vars

(***************************************************************************)
(* The specification's tables (spec section 4.1 and the allowed-kinds      *)
(* list), which the properties below hold the code against.                *)
(***************************************************************************)
None == << >>

Described(required, max, choices, default, list) ==
    [required |-> required, max |-> max, choices |-> choices,
     default |-> default, list |-> list]

SpecTable ==
    [HeroBlock |->
        Described({"title", "background_image"}, None,
                  [height |-> {"full", "medium", "small"}],
                  [height |-> Str("full")], None),
     StatsBlock |->
        Described({"icon_name", "number", "label"},
                  [number |-> 20, label |-> 50, suffix |-> 5],
                  [icon_name |-> {"users", "utensils", "heart", "globe"}], None, None),
     ImpactStatisticBlock |->
        Described({"section_title"}, [section_title |-> 100], None, None,
                  [stats |-> "StatsBlock"]),
     SectionHeaderBlock |->
        Described({"title"}, None, None, [centered |-> Bool(TRUE)], None),
     ProjectCardBlock |->
        Described({"image", "title", "location", "description"},
                  [title |-> 200, location |-> 100],
                  [status |-> {"Active", "Ongoing", "Completed"}],
                  [status |-> Str("Active")], None),
     ProjectCardsBlock |->
        Described({}, [section_title |-> 200], None, None,
                  [projects |-> "ProjectCardBlock"]),
     TeamMemberBlock |-> Described({}, None, None, None, None),
     TeamSectionBlock |-> Described({}, None, None, None, None)]

AllowedKinds ==
    {"hero_section", "section_header", "stats", "impact_statistic",
     "project_card", "project_cards", "team_member", "team_section"}

Binding ==
    [hero_section |-> "HeroBlock", section_header |-> "SectionHeaderBlock",
     stats |-> "StatsBlock", impact_statistic |-> "ImpactStatisticBlock",
     project_card |-> "ProjectCardBlock", project_cards |-> "ProjectCardsBlock",
     team_member |-> "TeamMemberBlock", team_section |-> "TeamSectionBlock"]

\* A submitted instance keeps to the table: the fields of `required` are
\* present, every present value is within its max length and among its codes,
\* and so is every item of a nested list.
RECURSIVE Valid(_, _, _)
Valid(b, raw, required) ==
    LET T == SpecTable[b]
    IN  /\ required \subseteq DOMAIN raw.f
        /\ \A n \in DOMAIN raw.f \cap DOMAIN T.max : Len(raw.f[n].s) <= T.max[n]
        /\ \A n \in DOMAIN raw.f \cap DOMAIN T.choices : raw.f[n].s \in T.choices[n]
        /\ \A n \in DOMAIN raw.f \cap DOMAIN T.list :
             \A i \in DOMAIN raw.f[n].items :
                Valid(T.list[n], raw.f[n].items[i], SpecTable[T.list[n]].required)

ListsPresent(b, raw) == DOMAIN SpecTable[b].list \subseteq DOMAIN raw.f

\* raw without the field n.
Without(raw, n) == Struct([m \in DOMAIN raw.f \ {n} |-> raw.f[m]])

\* raw is a valid instance but for the field n, of which nothing is said.
ValidBut(b, raw, n) ==
    /\ Valid(b, Without(raw, n), SpecTable[b].required \ {n})
    /\ ListsPresent(b, Without(raw, n))

Blank(v) == v = NoneV \/ v = Str("")

\* A persisted instance keeps to the table.
RECURSIVE StoredValid(_, _)
StoredValid(b, v) ==
    LET T == SpecTable[b]
    IN  /\ \A n \in T.required : n \in DOMAIN v.f /\ ~Blank(v.f[n])
        /\ \A n \in DOMAIN T.max : Blank(v.f[n]) \/ Len(v.f[n].s) <= T.max[n]
        /\ \A n \in DOMAIN T.choices : v.f[n].t = "str" /\ v.f[n].s \in T.choices[n]
        /\ \A n \in DOMAIN T.list :
             \A i \in DOMAIN v.f[n].items :
                StoredValid(T.list[n], v.f[n].items[i].value)

block == instance[1]
raw == instance[2]
IsSave == response.op \in {"create", "edit"}
Untouched == content = response.before /\ exists = response.existed
KnownPairs == SelectSeq(request, LAMBDA r : r.type \in AllowedKinds)
HasUnknown == \E i \in DOMAIN request : request[i].type \notin AllowedKinds
HasInvalid ==
    \E i \in DOMAIN request :
       /\ request[i].type \in AllowedKinds
       /\ ~Valid(Binding[request[i].type], request[i].value,
                 SpecTable[Binding[request[i].type]].required)
AllWellFormed ==
    \A i \in DOMAIN KnownPairs :
       /\ Valid(Binding[KnownPairs[i].type], KnownPairs[i].value,
                SpecTable[Binding[KnownPairs[i].type]].required)
       /\ ListsPresent(Binding[KnownPairs[i].type], KnownPairs[i].value)

C2_PersistedIsValid ==
    /\ \A i \in DOMAIN content :
          /\ content[i].type \in AllowedKinds
          /\ StoredValid(Binding[content[i].type], content[i].value)
    /\ (IsSave /\ HasInvalid) => Untouched
    /\ ~exists => content = << >>

C2_Witness ==
    /\ response.op = "edit" /\ HasInvalid /\ ~HasUnknown
    /\ exists /\ Len(content) = 2 /\ Untouched
    /\ content[2].type = "impact_statistic"

(***************************************************************************)
(* C3                                                                      *)
(***************************************************************************)
\* C3, as stated: an instance with each required field present and each value
\* within its declared constraint validates with an empty error set, whatever
\* other field is absent.
C3_ValidInstanceAccepted ==
    (result.done /\ Valid(block, raw, SpecTable[block].required)) =>
        result.errors = {}

\* C3, amended: an instance with each required field present, each value
\* within its declared constraint and its nested list (stats, projects), when
\* the block has one, present validates with an empty error set; the optional
\* text, link and choice fields may be absent.
C3_ValidInstanceWithListAccepted ==
    (result.done /\ Valid(block, raw, SpecTable[block].required)
                 /\ ListsPresent(block, raw)) =>
        result.errors = {}

C3_Witness ==
    /\ result.done /\ block = "ProjectCardsBlock"
    /\ Valid(block, raw, SpecTable[block].required) /\ ListsPresent(block, raw)
    /\ DOMAIN raw.f = {"projects"} /\ Len(raw.f.projects.items) = 2
    /\ "link" \notin DOMAIN raw.f.projects.items[2].f
    /\ result.errors = {}

(***************************************************************************)
(* C4                                                                      *)
(***************************************************************************)
\* The fields declared required=True in home/blocks.py.
DeclaredRequired ==
    [b \in DOMAIN SpecTable |->
        SpecTable[b].required \cup (IF b = "ProjectCardBlock" THEN {"status"} ELSE {})]

OnlyError(n, code) ==
    /\ result.errors = {Err(<< n >>, code)}
    /\ result.stored = NoneV

\* C4, as stated: an otherwise valid instance that omits exactly one required
\* field raises MissingRequiredField for that field and for no other, and is
\* rejected as a whole.
C4_OmittedRequiredField ==
    result.done =>
        \A n \in DeclaredRequired[block] \ DOMAIN raw.f :
            ValidBut(block, raw, n) => OnlyError(n, MissingRequiredField)

\* C4, amended: an otherwise valid instance that omits exactly one required
\* field which declares no default raises MissingRequiredField for that field
\* and for no other, and is rejected as a whole; omitting a required field
\* that declares a default (Project card status) raises nothing.
C4_OmittedRequiredFieldWithoutDefault ==
    result.done =>
        \A n \in DeclaredRequired[block] \ DOMAIN raw.f :
            ValidBut(block, raw, n) =>
                IF n \in DOMAIN SpecTable[block].default
                THEN result.errors = {}
                ELSE OnlyError(n, MissingRequiredField)

C4_Witness ==
    /\ result.done /\ block = "ProjectCardBlock"
    /\ DOMAIN raw.f = {"image", "location", "description", "status", "link"}
    /\ ValidBut(block, raw, "title")
    /\ OnlyError("title", MissingRequiredField)

(***************************************************************************)
(* C5                                                                      *)
(***************************************************************************)
\* C5: in a Stat item whose other fields are valid, number is accepted at every
\* length from 1 to 20 and raises LengthExceeded at 21 and more; label
\* likewise at 50, suffix at 5.
C5_LengthBoundary ==
    (result.done /\ block = "StatsBlock") =>
        \A n \in {"number", "label", "suffix"} \cap DOMAIN raw.f :
            LET bound == [number |-> 20, label |-> 50, suffix |-> 5][n]
            IN  ValidBut(block, raw, n) =>
                  /\ Len(raw.f[n].s) \in 1..bound => result.errors = {}
                  /\ Len(raw.f[n].s) >= bound + 1 => OnlyError(n, LengthExceeded)

C5_Witness ==
    /\ result.done /\ block = "StatsBlock"
    /\ DOMAIN raw.f = {"icon_name", "number", "label", "suffix"}
    /\ Len(raw.f.number.s) = 20 /\ Len(raw.f.label.s) = 50 /\ Len(raw.f.suffix.s) = 5
    /\ result.errors = {}

(***************************************************************************)
(* C6                                                                      *)
(***************************************************************************)
\* C6: in a Project card whose other fields are valid, status validates when
\* it is Active, Ongoing or Completed and raises InvalidChoice otherwise, a
\* different letter case included; likewise Hero height and Stat icon_name.
C6_ChoiceMembership ==
    result.done =>
        \A n \in DOMAIN raw.f :
            LET codes == CASE block = "ProjectCardBlock" /\ n = "status" ->
                                {"Active", "Ongoing", "Completed"}
                           [] block = "HeroBlock" /\ n = "height" ->
                                {"full", "medium", "small"}
                           [] block = "StatsBlock" /\ n = "icon_name" ->
                                {"users", "utensils", "heart", "globe"}
                           [] OTHER -> {}
            IN  (codes # {} /\ ValidBut(block, raw, n)) =>
                  IF raw.f[n].s \in codes
                  THEN result.errors = {}
                  ELSE OnlyError(n, InvalidChoice)

C6_Witness ==
    /\ result.done /\ block = "ProjectCardBlock"
    /\ ValidBut(block, raw, "status")
    /\ "status" \in DOMAIN raw.f /\ raw.f.status = Str("active")
    /\ OnlyError("status", InvalidChoice)

(***************************************************************************)
(* C7                                                                      *)
(***************************************************************************)
\* C7: a Hero with valid title and background_image and no height validates
\* and stores height "full"; in every instance that validates, a field the
\* data lacks is stored with its declared default (Hero height, Section header
\* centered, Project card status) and blank when it declares none.
C7_DeclaredDefaultsOnly ==
    (result.done /\ result.errors = {}) =>
        \A n \in DOMAIN result.stored.f \ DOMAIN raw.f :
            IF n \in DOMAIN SpecTable[block].default
            THEN result.stored.f[n] = SpecTable[block].default[n]
            ELSE Blank(result.stored.f[n])

C7_HeroHeightDefault ==
    /\ (result.done /\ block = "HeroBlock" /\ "height" \notin DOMAIN raw.f
          /\ {"title", "background_image"} \subseteq DOMAIN raw.f) =>
            /\ result.errors = {}
            /\ result.stored.f.height = Str("full")
    /\ C7_DeclaredDefaultsOnly

C7_Witness ==
    /\ result.done /\ block = "HeroBlock"
    /\ DOMAIN raw.f = {"title", "background_image"}
    /\ result.errors = {}
    /\ result.stored.f.height = Str("full")
    /\ Blank(result.stored.f.subtitle)

(***************************************************************************)
(* C8                                                                      *)
(***************************************************************************)
\* The example read back from the persisted data: the hero and then the
\* section, each with the values submitted.
ExampleReadBack ==
    LET v == StreamToPython(content)
    IN  /\ Len(content) = 2 /\ Len(v) = 2
        /\ content[1].type = "hero_section"
        /\ v[1].value.f.title = Str("Welcome")
        /\ v[1].value.f.background_image = Obj(1)
        /\ v[1].value.f.height = Str("medium")
        /\ content[2].type = request[2].type
        /\ v[2].value.f.section_title = Str("Our Impact")
        /\ Len(v[2].value.f.stats.items) = 1
        /\ v[2].value.f.stats.items[1].f.icon_name = Str("users")
        /\ v[2].value.f.stats.items[1].f.number = Str("500")
        /\ v[2].value.f.stats.items[1].f.label = Str("People Helped")
        /\ StreamPrep(v) = content

\* C8, as stated: the example sequence, its second pair of kind "stats",
\* validates and round-trips through the {kind, value} records unchanged.
C8_ExampleRoundTrips ==
    (IsSave /\ request = ExampleSequence) =>
        /\ response.errors = {}
        /\ exists
        /\ ExampleReadBack

\* C8, amended: the example sequence with its second pair under the kind
\* "impact_statistic" validates, the hero against Hero and the section against
\* Impact statistics section, and round-trips through the {kind, value} records
\* with the same values in the same order; under the kind "stats", which is
\* bound to Stat item, the save is rejected.
C8_ExampleAsImpactRoundTrips ==
    /\ (IsSave /\ request = ExampleAsImpact) =>
          /\ response.errors = {}
          /\ response.blocks = << "HeroBlock", "ImpactStatisticBlock" >>
          /\ exists
          /\ ExampleReadBack
    /\ (IsSave /\ request = ExampleSequence) =>
          /\ response.blocks = << "HeroBlock", "StatsBlock" >>
          /\ response.errors # {}
          /\ Untouched

C8_Witness ==
    /\ response.op = "create" /\ request = ExampleAsImpact
    /\ exists /\ ExampleReadBack

====
